---- MODULE Spec2Model ----
(***************************************************************************)
(* Model of EnhancedRouteBuilder (src/src/core/index.ts): the file-system  *)
(* route table, its directory scan, and the watcher-driven reactions.      *)
(*                                                                         *)
(* Paths, file names and route paths are strings; the string operations of *)
(* the source (startsWith, endsWith, split, join, the two regular          *)
(* expressions, path.dirname/basename/relative/join) are modelled          *)
(* character by character.                                                 *)
(***************************************************************************)
EXTENDS Integers, Sequences, FiniteSets, TLC

VARIABLES
    fs,                 \* the file system under the source root: file -> content version (0 = absent)
    routes,             \* this.routes: handler file path -> RouteDefinition
    expectationsCache,  \* this.expectationsCache: directory -> expectations
    app,                \* this.app: the current server instance
    listening,          \* the server instances whose .server is set (listening on the port)
    regs,               \* per server instance, the (method, url) registrations made on it
    procs,              \* the calls of the watcher callbacks, in order of their events
    started             \* start() has run buildRoutes() and setupWatchers()

vars == <<fs, routes, expectationsCache, app, listening, regs, procs, started>>

----------------------------------------------------------------------------
(* Bounds *)

\* the number of watcher events delivered in one behaviour
MaxEvents == 2

----------------------------------------------------------------------------
(* Strings *)

LowerAlpha ==
    {"a", "b", "c", "d", "e", "f", "g", "h", "i", "j", "k", "l", "m",
     "n", "o", "p", "q", "r", "s", "t", "u", "v", "w", "x", "y", "z"}

CharAt(s, i) == SubSeq(s, i, i)

StartsWith(s, p) == Len(p) <= Len(s) /\ SubSeq(s, 1, Len(p)) = p

EndsWith(s, p) == Len(p) <= Len(s) /\ SubSeq(s, Len(s) - Len(p) + 1, Len(s)) = p

IndexesOf(s, c) == {i \in 1..Len(s) : CharAt(s, i) = c}

SetMax(S) == CHOOSE x \in S : \A y \in S : y <= x

SetMin(S) == CHOOSE x \in S : \A y \in S : x <= y

RECURSIVE Split(_, _)
Split(s, sep) ==
    LET at == IndexesOf(s, sep)
    IN  IF at = {} THEN <<s>>
        ELSE <<SubSeq(s, 1, SetMin(at) - 1)>> \o Split(SubSeq(s, SetMin(at) + 1, Len(s)), sep)

RECURSIVE Join(_, _)
Join(segs, sep) ==
    IF Len(segs) = 0 THEN ""
    ELSE IF Len(segs) = 1 THEN segs[1]
    ELSE segs[1] \o sep \o Join(Tail(segs), sep)

----------------------------------------------------------------------------
(* Paths (posix) *)

PathDirname(p) ==
    LET at == IndexesOf(p, "/")
    IN  IF at = {} THEN "."
        ELSE IF SetMax(at) = 1 THEN "/"
        ELSE SubSeq(p, 1, SetMax(at) - 1)

PathBasename(p) ==
    LET at == IndexesOf(p, "/")
    IN  IF at = {} THEN p ELSE SubSeq(p, SetMax(at) + 1, Len(p))

\* path.join / path.posix.join of two operands without "." or ".." segments
PathJoin(a, b) ==
    IF a = "" THEN (IF b = "" THEN "." ELSE b)
    ELSE IF b = "" THEN a
    ELSE IF EndsWith(a, "/") THEN a \o b
    ELSE a \o "/" \o b

\* path.relative(from, to) for a directory `to` at or below `from`
PathRelative(from, to) ==
    IF to = from THEN "" ELSE SubSeq(to, Len(from) + 2, Len(to))

----------------------------------------------------------------------------
(* Configuration *)

SourceDirectory == "/src"

ConfigBasePath == "/api"

\* the method names a server instance offers as route registrars
ServerMethods == {"get", "post", "put", "patch", "delete", "options", "head"}
----------------------------------------------------------------------------
(* The file system *)

\* the files that can exist under the source root
Universe ==
    {"/src/middleware.ts", "/src/index.get.ts",
     "/src/a/middleware.ts", "/src/a/expectations.ts",
     "/src/a/list.get.ts", "/src/a/listAll.get.ts", "/src/a/index.post.ts",
     "/src/a/list.foo.ts", "/src/a/list.GET.ts", "/src/a/x.y.get.ts", "/src/a/list.ts",
     "/src/a/_h.get.ts",
     "/src/a/b/middleware.ts", "/src/a/b/x.get.ts",
     "/src/a/b/c/middleware.ts", "/src/a/b/c/x.put.ts",
     "/src/a/bc/x.get.ts",
     "/src/_p/x.get.ts",
     "/src/(g)/x.get.ts"}

RECURSIVE DirsAbove(_)
DirsAbove(p) ==
    IF p = SourceDirectory \/ Len(p) <= Len(SourceDirectory) THEN {}
    ELSE {PathDirname(p)} \cup DirsAbove(PathDirname(p))

\* the directories of the tree, the source root included
AllDirs == UNION {DirsAbove(f) : f \in Universe}

\* the content versions of a file: version 2 of an expectations.ts exports another value,
\* version 2 of a handler file is a module that throws when it is loaded
Versions == {1, 2}

IsExpectationsFile(f) == PathBasename(f) = "expectations.ts"

\* the handler files an edit can leave in a state that does not load
BreakableHandlers == {"/src/a/listAll.get.ts"}

\* the contents a write can give file f
ContentsOf(f) ==
    IF IsExpectationsFile(f) \/ f \in BreakableHandlers THEN Versions ELSE {1}

\* the file is a handler module that throws when it is loaded
Broken(files, f) == f \in BreakableHandlers /\ files[f] = 2

\* fs.existsSync of a file
FileExists(files, f) == f \in DOMAIN files /\ files[f] > 0

\* the file lies in directory d or below it (what the file system means by "under")
Under(f, d) == StartsWith(f, d \o "/")

\* fs.existsSync of a directory: a directory exists while it holds a file
DirExists(files, d) == \E f \in DOMAIN files : files[f] > 0 /\ Under(f, d)

\* fs.readdirSync(dirPath): the names of the entries directly in d
ReadDir(files, d) ==
    {Split(PathRelative(d, f), "/")[1] : f \in {g \in DOMAIN files : files[g] > 0 /\ Under(g, d)}}

\* Dirent.isDirectory() of the entry at path p
IsDirectory(files, p) == DirExists(files, p)

----------------------------------------------------------------------------
(* The watcher's ignore predicate (createWatcher) *)

Ignored(filePath, isFile) ==
    IF isFile /\ ~EndsWith(filePath, ".ts") THEN TRUE
    ELSE \E i \in DOMAIN Split(filePath, "/") : StartsWith(Split(filePath, "/")[i], "_")

----------------------------------------------------------------------------
(* parseRouteFile *)

\* basename.match(/^(.+?)\.([a-z]+)\.ts$/): {} for no match, else {<<fileName, method>>}
RouteFileMatch(name) ==
    LET cuts == {i \in 1..Len(name) :
                    /\ i + 1 <= Len(name)
                    /\ CharAt(name, i + 1) = "."
                    /\ LET rest == SubSeq(name, i + 2, Len(name))
                       IN  /\ Len(rest) >= 4
                           /\ EndsWith(rest, ".ts")
                           /\ \A k \in 1..(Len(rest) - 3) : CharAt(rest, k) \in LowerAlpha}
    IN  IF cuts = {} THEN {}
        ELSE LET i == SetMin(cuts)
             IN  {<<SubSeq(name, 1, i), SubSeq(name, i + 2, Len(name) - 3)>>}

\* segment.match(/^\((.*?)\)$/): {} for no match, else {the name inside the parentheses}
GroupMatch(name) ==
    IF Len(name) >= 2 /\ CharAt(name, 1) = "(" /\ CharAt(name, Len(name)) = ")"
    THEN {SubSeq(name, 2, Len(name) - 1)}
    ELSE {}

\* a directory name as a segment of basePath: a group's parentheses are dropped
GroupName(name) ==
    IF GroupMatch(name) = {} THEN name ELSE CHOOSE g \in GroupMatch(name) : TRUE

\* basePath computed from the file's own path when parseRouteFile is given none
ComputedBasePath(filePath) ==
    LET relPath == PathRelative(SourceDirectory, PathDirname(filePath))
        segments == Split("/" \o Join(Split(relPath, "/"), "/"), "/")
    IN  Join([i \in DOMAIN segments |-> GroupName(segments[i])], "/")

\* the route path when "index" is joined like every other file name
RoutePath_IndexJoined(basePath, fileName) == PathJoin(basePath, fileName)

\* the route path of a file named fileName under basePath
RoutePath(basePath, fileName) ==
    IF fileName # "index" THEN PathJoin(basePath, fileName) ELSE basePath

\* the while loop over the parent directories
RECURSIVE ParentMiddlewares(_, _)
ParentMiddlewares(files, parentDir) ==
    IF parentDir = SourceDirectory \/ parentDir = "." THEN <<>>
    ELSE LET up == PathDirname(parentDir)
             parentMiddleware == PathJoin(up, "middleware.ts")
         IN  (IF FileExists(files, parentMiddleware) THEN <<parentMiddleware>> ELSE <<>>)
             \o ParentMiddlewares(files, up)

\* the slip of pushing the local middleware after those of the parent directories
MiddlewareChain_LocalLast(files, filePath, localMiddleware) ==
    ParentMiddlewares(files, PathDirname(filePath))
    \o (IF localMiddleware # "" THEN <<localMiddleware>> ELSE <<>>)

\* the middlewares array: the local middleware, then those of the parent directories
MiddlewareChain(files, filePath, localMiddleware) ==
    (IF localMiddleware # "" THEN <<localMiddleware>> ELSE <<>>)
    \o ParentMiddlewares(files, PathDirname(filePath))

\* parseRouteFile(filePath, basePath, localMiddleware, expectations): {} for null, else
\* {the RouteDefinition}; "" stands for a null localMiddleware, 0 for null expectations
ParseRouteFile(files, filePath, basePath, localMiddleware, expectations) ==
    LET match == RouteFileMatch(PathBasename(filePath))
    IN  IF match = {} THEN {}
        ELSE LET m == CHOOSE x \in match : TRUE
                 base == IF basePath = "" THEN ComputedBasePath(filePath) ELSE basePath
             IN  {[path |-> RoutePath(base, m[1]),
                   method |-> m[2],
                   handlerPath |-> filePath,
                   middlewares |-> MiddlewareChain(files, filePath, localMiddleware),
                   expectations |-> expectations]}

----------------------------------------------------------------------------
(* scanDirectory *)

\* what require(expectationsPath).default yields for the directory's expectations.ts
LoadExpectations(files, dirPath) == files[PathJoin(dirPath, "expectations.ts")]

\* the expectations scanDirectory attaches to the routes of dirPath
DirExpectations(files, cache, dirPath) ==
    IF FileExists(files, PathJoin(dirPath, "expectations.ts"))
    THEN LoadExpectations(files, dirPath)
    ELSE IF dirPath \in DOMAIN cache THEN cache[dirPath] ELSE 0

\* the localMiddleware scanDirectory finds for dirPath
LocalMiddleware(files, dirPath) ==
    IF FileExists(files, PathJoin(dirPath, "middleware.ts"))
    THEN PathJoin(dirPath, "middleware.ts") ELSE ""

\* the slip of scanning entries with the ignore marker like any other
SkipEntry_Never(name) == FALSE

\* the for loop's skip of entries with the ignore marker
SkipEntry(name) == StartsWith(name, "_")

\* the RouteDefinitions scanDirectory(dirPath, basePath) returns
RECURSIVE ScanRoutes(_, _, _, _)
ScanRoutes(files, cache, dirPath, basePath) ==
    IF ~DirExists(files, dirPath) THEN {}
    ELSE UNION {
        LET fullPath == PathJoin(dirPath, name)
        IN  IF IsDirectory(files, fullPath)
            THEN ScanRoutes(files, cache, fullPath, PathJoin(basePath, GroupName(name)))
            ELSE IF EndsWith(name, ".ts") /\ name \notin {"middleware.ts", "expectations.ts"}
            THEN ParseRouteFile(files, fullPath, basePath,
                                LocalMiddleware(files, dirPath),
                                DirExpectations(files, cache, dirPath))
            ELSE {}
        : name \in {n \in ReadDir(files, dirPath) : ~SkipEntry(n)}}

\* the directories scanDirectory(dirPath) visits
RECURSIVE ScannedDirs(_, _)
ScannedDirs(files, dirPath) ==
    IF ~DirExists(files, dirPath) THEN {}
    ELSE {dirPath} \cup UNION {
        IF IsDirectory(files, PathJoin(dirPath, name))
        THEN ScannedDirs(files, PathJoin(dirPath, name)) ELSE {}
        : name \in {n \in ReadDir(files, dirPath) : ~SkipEntry(n)}}

\* this.expectationsCache after scanDirectory(dirPath): every visited directory that
\* declares expectations.ts has its entry set to what the file exports
ScanCache(files, cache, dirPath) ==
    LET loaded == {d \in ScannedDirs(files, dirPath) :
                      FileExists(files, PathJoin(d, "expectations.ts"))}
    IN  [d \in DOMAIN cache \cup loaded |->
            IF d \in loaded THEN LoadExpectations(files, d) ELSE cache[d]]

\* a list of RouteDefinitions as the Map the callers build from it
AsTable(defs) ==
    [f \in {r.handlerPath : r \in defs} |-> CHOOSE r \in defs : r.handlerPath = f]
----------------------------------------------------------------------------
(* The route table *)

\* this.routes.delete(filePath) for every key in `keys`
RoutesDelete(table, keys) == [f \in DOMAIN table \ keys |-> table[f]]

\* this.routes.set(route.handlerPath, route) for every route of `defs`
RoutesSet(table, defs) ==
    [f \in DOMAIN table \cup DOMAIN AsTable(defs) |->
        IF f \in DOMAIN AsTable(defs) THEN AsTable(defs)[f] ELSE table[f]]

\* the keys the loops of handleDirectoryRemoval and rebuildDirectoryRoutes delete
KeysStartingWith(table, dirPath) == {f \in DOMAIN table : StartsWith(f, dirPath)}

\* the slip of matching the removed file by its handler name as a string prefix
KeysOfFile_ByNamePrefix(table, filePath) ==
    {f \in DOMAIN table :
        StartsWith(f, PathJoin(PathDirname(filePath), Split(PathBasename(filePath), ".")[1]))}

\* the keys handleFileRemoval deletes
KeysOfFile(table, filePath) == {f \in DOMAIN table : f = filePath}

----------------------------------------------------------------------------
(* applyRouteToApp and rebuildApp *)

\* require(route.handlerPath) succeeds
HandlerLoads(files, route) ==
    FileExists(files, route.handlerPath) /\ ~Broken(files, route.handlerPath)

\* what applyRouteToApp(route, app) registers on app: nothing when the handler does not
\* load or the instance has no such method; prefix is the group the instance is in
Registration(files, route, prefix) ==
    IF HandlerLoads(files, route) /\ route.method \in ServerMethods
    THEN {[method |-> route.method, url |-> prefix \o route.path]}
    ELSE {}

\* the registrations when the first handler that fails to load ends the loop over the
\* routes (any order of the loop: nothing is certain to be registered)
RebuildRegistrations_AbortOnFailure(files, table) ==
    IF \E f \in DOMAIN table : ~HandlerLoads(files, table[f]) THEN {}
    ELSE UNION {Registration(files, table[f], ConfigBasePath) : f \in DOMAIN table}

\* the registrations of the new instance rebuildApp builds from the route table
RebuildRegistrations(files, table) ==
    UNION {Registration(files, table[f], ConfigBasePath) : f \in DOMAIN table}

\* the server instance rebuildApp constructs
NewApp == Len(regs) + 1

\* rebuildApp finds this.app.server set and awaits this.app.stop()
RebuildSuspends == app \in listening

\* rebuildApp() up to its await, or to its end when the current instance is not listening;
\* stop() may clear the old instance's server before or after it yields
RebuildApp(files, table) ==
    /\ regs' = Append(regs, RebuildRegistrations(files, table))
    /\ IF RebuildSuspends
       THEN /\ app' = app
            /\ listening' \in {listening, listening \ {app}}
       ELSE /\ app' = NewApp
            /\ listening' = listening \cup {NewApp}

----------------------------------------------------------------------------
(* The calls of the watcher callbacks *)

NoApp == 0

NewProc(kind, filePath) ==
    [kind |-> kind, path |-> filePath, pc |-> "done",
     scanned |-> {}, route |-> {}, newApp |-> NoApp, stopOn |-> NoApp]

\* the call has returned: its locals are gone
Finished(p) == NewProc(p.kind, p.path)

\* the call after it has entered rebuildApp
AfterRebuildApp(p) ==
    IF RebuildSuspends
    THEN [Finished(p) EXCEPT !.pc = "awaitStop", !.newApp = NewApp, !.stopOn = app]
    ELSE Finished(p)

InFlight == {i \in DOMAIN procs : procs[i].pc # "done"}

\* the slip of sending every file that is not expectations.ts down the directory branch
ChangeKindOf_AlwaysDirectory(filePath) ==
    IF PathBasename(filePath) = "expectations.ts" THEN "expectations" ELSE "middleware"

\* which branch of handleFileChange a path takes
ChangeKindOf(filePath) ==
    IF PathBasename(filePath) = "middleware.ts" THEN "middleware"
    ELSE IF PathBasename(filePath) = "expectations.ts" THEN "expectations"
    ELSE "route"

\* handleFileChange(filePath) up to its first await, on the file system `files`
HandleFileChange(kind, filePath, files) ==
    LET dirPath == PathDirname(filePath)
        cache == IF ChangeKindOf(filePath) = "expectations"
                 THEN [d \in DOMAIN expectationsCache \ {dirPath} |-> expectationsCache[d]]
                 ELSE expectationsCache
    IN  IF ChangeKindOf(filePath) = "route"
        THEN /\ procs' = Append(procs, [NewProc(kind, filePath) EXCEPT
                                !.pc = "afterParse",
                                !.route = ParseRouteFile(files, filePath, "", "", 0)])
             /\ UNCHANGED <<routes, expectationsCache, app, listening, regs>>
        ELSE \* rebuildDirectoryRoutes(dirPath) up to the await of scanDirectory
             /\ routes' = RoutesDelete(routes, KeysStartingWith(routes, dirPath))
             /\ expectationsCache' = ScanCache(files, cache, dirPath)
             /\ procs' = Append(procs, [NewProc(kind, filePath) EXCEPT
                                !.pc = "afterScan",
                                !.scanned = ScanRoutes(files, cache, dirPath, "")])
             /\ UNCHANGED <<app, listening, regs>>

\* handleFileRemoval(filePath) up to its first await
HandleFileRemoval(filePath, files) ==
    IF KeysOfFile(routes, filePath) # {}
    THEN /\ routes' = RoutesDelete(routes, KeysOfFile(routes, filePath))
         /\ RebuildApp(files, routes')
         /\ procs' = Append(procs, AfterRebuildApp(NewProc("unlink", filePath)))
         /\ UNCHANGED expectationsCache
    ELSE /\ procs' = Append(procs, NewProc("unlink", filePath))
         /\ UNCHANGED <<routes, expectationsCache, app, listening, regs>>

\* handleDirectoryRemoval(dirPath) up to its first await
HandleDirectoryRemoval(dirPath, files) ==
    /\ routes' = RoutesDelete(routes, KeysStartingWith(routes, dirPath))
    /\ RebuildApp(files, routes')
    /\ procs' = Append(procs, AfterRebuildApp(NewProc("unlinkDir", dirPath)))
    /\ UNCHANGED expectationsCache

----------------------------------------------------------------------------
(* Init and the actions *)

\* the trees the builder can be constructed on: every file present, or the same tree
\* before any middleware.ts or expectations.ts was written
InitialTrees ==
    {[f \in Universe |-> 1],
     [f \in Universe |->
         IF PathBasename(f) \in {"middleware.ts", "expectations.ts"} THEN 0 ELSE 1]}

Init ==
    /\ fs \in InitialTrees
    /\ routes = <<>>
    /\ expectationsCache = <<>>
    /\ app = 1
    /\ listening = {}
    /\ regs = <<{}>>
    /\ procs = <<>>
    /\ started = FALSE

\* start(): buildRoutes() scans the source directory and rebuilds the app, then
\* setupWatchers() attaches the callbacks
Start ==
    /\ ~started
    /\ started' = TRUE
    /\ routes' = RoutesSet(<<>>, ScanRoutes(fs, expectationsCache, SourceDirectory, ""))
    /\ expectationsCache' = ScanCache(fs, expectationsCache, SourceDirectory)
    /\ regs' = Append(regs, RebuildRegistrations(fs, routes'))
    /\ app' = NewApp
    /\ listening' = (listening \ {app}) \cup {NewApp}
    /\ UNCHANGED <<fs, procs>>

CanDeliver == started /\ Len(procs) < MaxEvents

\* a file appears; the watcher reports "add" unless it ignores the path
EvAdd(f) ==
    /\ CanDeliver
    /\ fs[f] = 0
    /\ \E v \in ContentsOf(f) :
          fs' = [fs EXCEPT ![f] = v]
    /\ IF Ignored(f, TRUE)
       THEN UNCHANGED <<routes, expectationsCache, app, listening, regs, procs>>
       ELSE HandleFileChange("add", f, fs')
    /\ UNCHANGED started

\* a file is written (or is reported again); the watcher reports "change"
EvChange(f) ==
    /\ CanDeliver
    /\ fs[f] > 0
    /\ ~Ignored(f, TRUE)
    /\ \E v \in ContentsOf(f) :
          fs' = [fs EXCEPT ![f] = v]
    /\ HandleFileChange("change", f, fs')
    /\ UNCHANGED started

\* a file is deleted; the watcher reports "unlink" unless it ignores the path
EvUnlink(f) ==
    /\ CanDeliver
    /\ fs[f] > 0
    /\ fs' = [fs EXCEPT ![f] = 0]
    /\ IF Ignored(f, TRUE)
       THEN UNCHANGED <<routes, expectationsCache, app, listening, regs, procs>>
       ELSE HandleFileRemoval(f, fs')
    /\ UNCHANGED started

\* a directory is deleted with all it holds; the watcher reports "unlinkDir"
EvUnlinkDir(d) ==
    /\ CanDeliver
    /\ d # SourceDirectory
    /\ DirExists(fs, d)
    /\ fs' = [f \in Universe |-> IF Under(f, d) THEN 0 ELSE fs[f]]
    /\ IF Ignored(d, FALSE)
       THEN UNCHANGED <<routes, expectationsCache, app, listening, regs, procs>>
       ELSE HandleDirectoryRemoval(d, fs')
    /\ UNCHANGED started

\* rebuildDirectoryRoutes resumes after scanDirectory: it stores the scanned routes and
\* calls rebuildApp
MergeScan(i) ==
    /\ procs[i].pc = "afterScan"
    /\ routes' = RoutesSet(routes, procs[i].scanned)
    /\ RebuildApp(fs, routes')
    /\ procs' = [procs EXCEPT ![i] = AfterRebuildApp(procs[i])]
    /\ UNCHANGED <<fs, expectationsCache, started>>

\* handleFileChange resumes after parseRouteFile: it stores the route, if any, and
\* applies it to the current instance
ApplyRoute(i) ==
    /\ procs[i].pc = "afterParse"
    /\ routes' = RoutesSet(routes, procs[i].route)
    /\ regs' = [regs EXCEPT ![app] =
                   @ \cup UNION {Registration(fs, r, "") : r \in procs[i].route}]
    /\ procs' = [procs EXCEPT ![i] = Finished(procs[i])]
    /\ UNCHANGED <<fs, expectationsCache, app, listening, started>>

\* rebuildApp resumes after stop(): the new instance listens and becomes this.app
StopDone(i) ==
    /\ procs[i].pc = "awaitStop"
    /\ listening' = (listening \ {procs[i].stopOn}) \cup {procs[i].newApp}
    /\ app' = procs[i].newApp
    /\ procs' = [procs EXCEPT ![i] = Finished(procs[i])]
    /\ UNCHANGED <<fs, routes, expectationsCache, regs, started>>

Next ==
    \/ Start
    \/ \E f \in Universe : EvAdd(f)
    \/ \E f \in Universe : EvChange(f)
    \/ \E f \in Universe : EvUnlink(f)
    \/ \E d \in AllDirs : EvUnlinkDir(d)
    \/ \E i \in DOMAIN procs : MergeScan(i)
    \/ \E i \in DOMAIN procs : ApplyRoute(i)
    \/ \E i \in DOMAIN procs : StopDone(i)

Spec == Init /\ [][Next]_vars
\* The same program when the watcher delivers an event only after the reaction to the
\* previous one has returned.
Idle == InFlight = {}

NextSerial ==
    \/ Start
    \/ \E f \in Universe : Idle /\ EvAdd(f)
    \/ \E f \in Universe : Idle /\ EvChange(f)
    \/ \E f \in Universe : Idle /\ EvUnlink(f)
    \/ \E d \in AllDirs : Idle /\ EvUnlinkDir(d)
    \/ \E i \in DOMAIN procs : MergeScan(i)
    \/ \E i \in DOMAIN procs : ApplyRoute(i)
    \/ \E i \in DOMAIN procs : StopDone(i)

SpecSerial == Init /\ [][NextSerial]_vars

----------------------------------------------------------------------------
(* Vocabulary of the properties *)

\* the step is taken by call i (its dispatch included)
StepBy(i) == i \in DOMAIN procs' /\ (i \notin DOMAIN procs \/ procs'[i] # procs[i])

\* the step delivers the event of call i and runs its callback up to the first await
Dispatched(i) == i \in DOMAIN procs' /\ i \notin DOMAIN procs

\* the step in which call i returns
Returns(i) == i \in DOMAIN procs /\ procs[i].pc # "done" /\ procs'[i].pc = "done"

Range(seq) == {seq[k] : k \in DOMAIN seq}

\* the names of a path below the source root, the file name last
NamesOf(f) == Split(PathRelative(SourceDirectory, f), "/")

\* a file or directory name of the path starts with the ignore marker
HasUnderscoreName(f) == \E k \in DOMAIN NamesOf(f) : CharAt(NamesOf(f)[k], 1) = "_"

IsGroupDirName(n) == Len(n) >= 2 /\ CharAt(n, 1) = "(" /\ CharAt(n, Len(n)) = ")"

\* the directory names between the source root and the file, nearest to the root first
DirNamesOf(f) == SubSeq(NamesOf(f), 1, Len(NamesOf(f)) - 1)

\* the HTTP method tokens the specification recognizes
RecognizedMethods == {"get", "post", "put", "delete", "patch", "options", "head"}

\* <name>.<method>.ts with a recognized method and no dot inside <name>
WellFormedHandlerName(n) ==
    LET parts == Split(n, ".")
    IN  /\ Len(parts) = 3
        /\ parts[1] # ""
        /\ parts[2] \in RecognizedMethods
        /\ parts[3] = "ts"

\* a file that is to become a route: a well-formed handler name, nothing ignored on its path
IsHandlerFile(f) == WellFormedHandlerName(PathBasename(f)) /\ ~HasUnderscoreName(f)

\* the non-empty segments of a route path
RouteSegments(p) == SelectSeq(Split(p, "/"), LAMBDA x : x # "")

\* the segments the specification gives the route of handler file f: the names of the
\* directories that are not groups, then the handler name unless it is "index"
SpecSegments(f) ==
    SelectSeq(DirNamesOf(f), LAMBDA n : ~IsGroupDirName(n))
    \o (IF Split(PathBasename(f), ".")[1] = "index" THEN <<>>
        ELSE <<Split(PathBasename(f), ".")[1]>>)

----------------------------------------------------------------------------
(* C1 *)

\* C1: at most one rebuild is in flight: while a call is suspended inside rebuildApp
\* (at the await of stop()), no step mutates the route table or enters rebuildApp.
C1_RebuildsSerialized ==
    [][\A j \in DOMAIN procs :
          procs[j].pc = "awaitStop" => (routes' = routes /\ Len(regs') = Len(regs))]_vars

(* C2 *)

\* C2: an unlinkDir event for directory D removes exactly the entries whose handler
\* file lies under D at a path-segment boundary, and changes no other entry.
C2_UnlinkDirAtSegmentBoundary ==
    [][\A i \in DOMAIN procs' :
          (Dispatched(i) /\ procs'[i].kind = "unlinkDir") =>
              /\ DOMAIN routes' = {f \in DOMAIN routes : ~Under(f, procs'[i].path)}
              /\ \A f \in DOMAIN routes' : routes'[f] = routes[f]]_vars

(* C3 *)

IsRegularChange(p) ==
    /\ p.kind \in {"add", "change"}
    /\ PathBasename(p.path) \notin {"middleware.ts", "expectations.ts"}

\* C3: every step of the reaction to an add/change of a regular handler file leaves the
\* live server instance (its identity, the listening instances, the instances built),
\* the expectations cache and every route table entry but that file's unchanged.
C3_HandlerChangeIsIncremental ==
    [][\A i \in DOMAIN procs' :
          (StepBy(i) /\ IsRegularChange(procs'[i])) =>
              /\ app' = app
              /\ listening' = listening
              /\ Len(regs') = Len(regs)
              /\ expectationsCache' = expectationsCache
              /\ DOMAIN routes' \ {procs'[i].path} = DOMAIN routes \ {procs'[i].path}
              /\ \A g \in DOMAIN routes \ {procs'[i].path} : routes'[g] = routes[g]]_vars

\* C3 witness: a regular handler file's change has been processed while another
\* reaction was in flight, and the file's route was stored
C3_Witness ==
    \E i \in DOMAIN procs :
        /\ IsRegularChange(procs[i])
        /\ procs[i].pc = "done"
        /\ procs[i].path \in DOMAIN routes
        /\ Cardinality(DOMAIN routes) > 1
        /\ InFlight # {}

(* C4 *)

IsMiddlewareChange(p) ==
    p.kind \in {"add", "change"} /\ PathBasename(p.path) = "middleware.ts"

\* C4: when the reaction to an add/change of D/middleware.ts returns, every handler file
\* under D has a route table entry whose chain contains D/middleware.ts, the instance
\* that was live is stopped and a new instance listens in its place.
C4_MiddlewareChangeRebuilds ==
    [][\A i \in DOMAIN procs :
          (Returns(i) /\ IsMiddlewareChange(procs[i])) =>
              /\ \A f \in Universe :
                    (FileExists(fs', f) /\ IsHandlerFile(f)
                        /\ Under(f, PathDirname(procs[i].path))) =>
                        /\ f \in DOMAIN routes'
                        /\ procs[i].path \in Range(routes'[f].middlewares)
              /\ app' # app
              /\ app' \in listening'
              /\ app \notin listening']_vars

(* C5 *)

HasGroupDir(f) == \E k \in DOMAIN DirNamesOf(f) : IsGroupDirName(DirNamesOf(f)[k])

\* C5: a group directory (X) contributes no segment: the route path of every handler
\* beneath one is made of the non-group directory names and the handler name only.
C5_GroupContributesNoSegment ==
    \A f \in DOMAIN routes :
        HasGroupDir(f) => RouteSegments(routes[f].path) = SpecSegments(f)

(* C6 *)

\* C6: every route path in the table starts with a slash and has no trailing slash
\* unless it is the root path.
C6_RoutePathsNormalized ==
    \A f \in DOMAIN routes :
        /\ StartsWith(routes[f].path, "/")
        /\ EndsWith(routes[f].path, "/") => routes[f].path = "/"

(* C7 *)

\* C7: no route table entry has a handler path with a file or directory name that
\* starts with an underscore.
C7_NoUnderscoreEntries == \A f \in DOMAIN routes : ~HasUnderscoreName(f)

\* C7 witness: underscore-named files with valid handler names exist, one directly in a
\* directory and one in an underscore directory, after a subtree rescan of their parent
\* directory has been merged into the table
C7_Witness ==
    /\ FileExists(fs, "/src/a/_h.get.ts")
    /\ FileExists(fs, "/src/_p/x.get.ts")
    /\ \E i \in DOMAIN procs :
          /\ PathBasename(procs[i].path) \in {"middleware.ts", "expectations.ts"}
          /\ procs[i].kind \in {"add", "change"}
          /\ procs[i].pc = "done"
          /\ Under("/src/a/_h.get.ts", PathDirname(procs[i].path))
    /\ "/src/a/list.get.ts" \in DOMAIN routes

(* C8 *)

\* C8: an unlink event for file F removes exactly the entry keyed by F and changes no
\* other entry; when F had an entry, rebuildApp is entered (a new instance is built from
\* the table) and, once stop() returns, that instance listens and is the live one.
C8_UnlinkRemovesExactlyOne ==
    [][\A i \in DOMAIN procs' :
          (StepBy(i) /\ procs'[i].kind = "unlink") =>
              IF Dispatched(i)
              THEN /\ DOMAIN routes' = DOMAIN routes \ {procs'[i].path}
                   /\ \A g \in DOMAIN routes' : routes'[g] = routes[g]
                   /\ procs'[i].path \in DOMAIN routes =>
                         /\ Len(regs') = Len(regs) + 1
                         /\ \/ procs'[i].pc = "awaitStop" /\ procs'[i].newApp = Len(regs')
                            \/ app' = Len(regs') /\ app' \in listening'
              ELSE /\ routes' = routes
                   /\ app' = procs[i].newApp
                   /\ app' \in listening'
                   /\ procs[i].stopOn \notin listening']_vars

\* C8 witness: list.get.ts was unlinked and its reaction has returned; its entry is gone
\* and the entry of listAll.get.ts next to it is still there, on a rebuilt instance
C8_Witness ==
    \E i \in DOMAIN procs :
        /\ procs[i].kind = "unlink"
        /\ procs[i].path = "/src/a/list.get.ts"
        /\ procs[i].pc = "done"
        /\ "/src/a/list.get.ts" \notin DOMAIN routes
        /\ "/src/a/listAll.get.ts" \in DOMAIN routes
        /\ app > 2
        /\ app \in listening

(* C9 *)

\* the directories from d up to, but not including, the source root
RECURSIVE DirsBelowRoot(_)
DirsBelowRoot(d) ==
    IF d = SourceDirectory THEN <<>> ELSE <<d>> \o DirsBelowRoot(PathDirname(d))

\* the chain the specification gives handler file f: the middleware of its own directory,
\* then that of each ancestor directory below the source root, nearest first
SpecChain(files, f) ==
    LET own == PathDirname(f)
        dirs == IF own = SourceDirectory THEN <<own>> ELSE DirsBelowRoot(own)
    IN  SelectSeq([k \in DOMAIN dirs |-> dirs[k] \o "/middleware.ts"],
                  LAMBDA m : FileExists(files, m))

ChainStartsWithSpecChain(files, r) ==
    /\ Len(r.middlewares) >= Len(SpecChain(files, r.handlerPath))
    /\ SubSeq(r.middlewares, 1, Len(SpecChain(files, r.handlerPath)))
           = SpecChain(files, r.handlerPath)

\* C9: every route definition a directory scan produces (the initial scan, and the
\* subtree rescan of a middleware.ts/expectations.ts change) has a chain that lists the
\* own directory's middleware first, then the ancestors' below the root, nearest first.
C9_ScanChainOrder ==
    [][/\ (~started /\ started') =>
              \A f \in DOMAIN routes' : ChainStartsWithSpecChain(fs, routes'[f])
       /\ \A i \in DOMAIN procs' :
              Dispatched(i) =>
                  \A r \in procs'[i].scanned : ChainStartsWithSpecChain(fs', r)]_vars

\* C9 witness: a subtree rescan has produced the route of the file three directories
\* deep, with the three middlewares c, b, a in this order
C9_Witness ==
    \E i \in DOMAIN procs : \E r \in procs[i].scanned :
        /\ r.handlerPath = "/src/a/b/c/x.put.ts"
        /\ Len(r.middlewares) >= 3
        /\ SubSeq(r.middlewares, 1, 3) =
              <<"/src/a/b/c/middleware.ts", "/src/a/b/middleware.ts", "/src/a/middleware.ts">>

(* C10 *)

\* C10: only names of the shape <name>.<method>.ts with a recognized method token and
\* no further dot parse to a (name, method) pair, so no other name has an entry.
C10_OnlyWellFormedNamesHaveEntries ==
    \A f \in DOMAIN routes : WellFormedHandlerName(PathBasename(f))

(* C11 *)

IsIndexFile(f) ==
    RouteFileMatch(PathBasename(f)) # {} /\ Split(PathBasename(f), ".")[1] = "index"

C12_SingleLiveInstance ==
    /\ Cardinality(listening) <= 1
    /\ listening \subseteq {app}

(* C13 *)

\* C13: the chain of a handler in a subdirectory never lists the middleware.ts of the
\* source root: the walk over the ancestors stops below the source root.
C13_RootMiddlewareNotAncestor ==
    \A f \in DOMAIN routes :
        PathDirname(f) # SourceDirectory =>
            (SourceDirectory \o "/middleware.ts") \notin Range(routes[f].middlewares)

(* C14 *)

\* C14: once a change or unlink event for D/expectations.ts has been delivered and its
\* directory handled, the expectations cache holds for D nothing but what the file now
\* exports: no entry when the file is gone, the current content otherwise.
C14_CacheInvalidated ==
    [][\A i \in DOMAIN procs' :
          (Dispatched(i) /\ IsExpectationsFile(procs'[i].path)
              /\ procs'[i].kind \in {"change", "unlink"}) =>
              LET d == PathDirname(procs'[i].path)
              IN  d \in DOMAIN expectationsCache' =>
                      /\ FileExists(fs', procs'[i].path)
                      /\ expectationsCache'[d] = fs'[procs'[i].path]]_vars

(* C15 *)

\* C15: when no reaction is in flight, every entry whose handler file lies directly in
\* a directory that declares expectations.ts carries what that file exports.
C15_EntriesCarryExpectations ==
    Idle =>
        \A f \in DOMAIN routes :
            FileExists(fs, PathDirname(f) \o "/expectations.ts") =>
                routes[f].expectations = fs[PathDirname(f) \o "/expectations.ts"]

(* C16 *)

\* C16: the route definition the reaction to an add/change of a regular handler file
\* parses has the middleware.ts of the file's own directory, when there is one, as the
\* first element of its chain.
C16_ReparseChainStartsWithOwn ==
    [][\A i \in DOMAIN procs' :
          (Dispatched(i) /\ IsRegularChange(procs'[i])) =>
              \A r \in procs'[i].route :
                  FileExists(fs', PathDirname(r.handlerPath) \o "/middleware.ts") =>
                      /\ Len(r.middlewares) >= 1
                      /\ r.middlewares[1] = PathDirname(r.handlerPath) \o "/middleware.ts"]_vars

(* C17 *)

\* the route path a full scan from the source root gives handler file f
FullScanPath(files, cache, f) ==
    (CHOOSE r \in ScanRoutes(files, cache, SourceDirectory, "") : r.handlerPath = f).path

\* C17: every route definition the subtree rescan of a middleware.ts/expectations.ts
\* change produces, for files in nested subdirectories too, has the segments of the
\* route path a full scan from the source root gives the same file.
C17_RescanKeepsRoutePaths ==
    [][\A i \in DOMAIN procs' :
          (Dispatched(i) /\ procs'[i].kind \in {"add", "change"}
              /\ ~IsRegularChange(procs'[i])) =>
              \A r \in procs'[i].scanned :
                  RouteSegments(r.path) =
                      RouteSegments(FullScanPath(fs', expectationsCache', r.handlerPath))]_vars

(* C18 *)

\* registrations with each URL taken as its sequence of segments
BySegments(registrations) ==
    {[method |-> g.method, segments |-> RouteSegments(g.url)] : g \in registrations}

\* C18: when no reaction is in flight, the registrations on the live instance are those
\* a full rebuild from the present route table makes, every one of them under the
\* configured base path (URLs compared segment by segment).
C18_LiveInstanceMatchesTable ==
    (started /\ Idle) =>
        BySegments(regs[app]) = BySegments(RebuildRegistrations(fs, routes))

(* C19 *)

\* C19: when no reaction is in flight, every middleware path in every chain of the
\* route table names a middleware.ts that exists.
C19_ChainsNameExistingFiles ==
    Idle =>
        \A f \in DOMAIN routes :
            \A m \in Range(routes[f].middlewares) : FileExists(fs, m)

(* C20 *)

\* the registrations of the routes of the table whose handler loads, under the base path
LoadableRegistrations(files, table) ==
    {[method |-> table[f].method, url |-> ConfigBasePath \o table[f].path] :
        f \in {g \in DOMAIN table :
                  HandlerLoads(files, table[g]) /\ table[g].method \in ServerMethods}}

\* C20: the instance a full rebuild constructs has the registration of every route of
\* the table whose handler loads, whatever handlers fail to load; the rebuild goes on to
\* its await or to its end, and when it resumes the new instance listens and is the live
\* one, the route table left as it was.
C20_LoadFailureSkipsOneRoute ==
    [][/\ Len(regs') = Len(regs) + 1 =>
              /\ regs'[Len(regs')] = LoadableRegistrations(fs', routes')
              /\ \/ \E i \in DOMAIN procs' :
                        StepBy(i) /\ procs'[i].pc = "awaitStop" /\ procs'[i].newApp = Len(regs')
                 \/ app' = Len(regs') /\ app' \in listening'
       /\ \A i \in DOMAIN procs :
              (Returns(i) /\ procs[i].pc = "awaitStop") =>
                  /\ app' = procs[i].newApp
                  /\ app' \in listening'
                  /\ routes' = routes]_vars

\* C20 witness: no reaction is in flight, the live instance was built by a rebuild that
\* followed an event, the table holds the entry of a handler that does not load, that
\* route is not registered and the route of list.get.ts next to it is
C20_Witness ==
    /\ Idle
    /\ app > 2
    /\ app \in listening
    /\ "/src/a/listAll.get.ts" \in DOMAIN routes
    /\ Broken(fs, "/src/a/listAll.get.ts")
    /\ "/src/a/list.get.ts" \in DOMAIN routes
    /\ \E g \in regs[app] :
          g.url = ConfigBasePath \o routes["/src/a/list.get.ts"].path
    /\ ~\E g \in regs[app] :
          g.url = ConfigBasePath \o routes["/src/a/listAll.get.ts"].path

====
